---------------------------- MODULE Spec2Model ----------------------------
(* Model of src/src/chat.rs: the Chat text component, its builder methods, *)
(* and the JSON form that its serde derives define.                        *)
(*                                                                         *)
(* In-memory values                                                        *)
(*   Option<T>   : <<>> for None, <<v>> for Some(v)                        *)
(*   Chat        : record with the ten fields of the struct                *)
(*   ClickEvent  : <<Variant, payload>>                                    *)
(*   HoverEvent  : <<"ShowText", chat>>, <<"ShowItem", [id, count, tag]>>, *)
(*                 <<"ShowEntity", [name, entity_type, id]>>               *)
(*   Uuid        : sequence of 16 bytes                                    *)
(* JSON values                                                             *)
(*   <<"z">> null, <<"b", bool>>, <<"n", int>>, <<"s", string>>,           *)
(*   <<"a", elements>>, <<"o", pairs>> with pairs a sequence of            *)
(*   <<key, value>> in document order.                                     *)
(* Results of decoding: <<"Ok", value>> or <<"Err", kind>>.                *)
EXTENDS Integers, Sequences, FiniteSets, TLC

VARIABLES
  pc,        \* "new", "built", "encoded", "decoded"; "input" for a given document
  msg,       \* the Chat being built
  calls,     \* number of builder calls made on msg
  lastCall,  \* the last constructor or builder call, <<name>> or <<name, argument>>
  flagCall,  \* per style flag, the most recent call on it: "none", "enable", "disable"
  extraLog,  \* argument of the last set_extras (or the initial extra), then the later add_extra arguments
  doc,       \* the JSON document written or given
  res,       \* the result of decoding doc
  base,      \* the Chat the work started from: the one constructed, or the one
             \* whose encoding a given document was derived from
  edits      \* the changes made to that encoding, in order

vars == <<pc, msg, calls, lastCall, flagCall, extraLog, doc, res, base, edits>>

-----------------------------------------------------------------------------
(* Bounds *)

MaxCalls == 2
MaxEdits == 2

-----------------------------------------------------------------------------
(* Option and Result *)

None == <<>>
Some(v) == <<v>>

Ok(v) == <<"Ok", v>>
Err(kind) == <<"Err", kind>>
IsOk(r) == r[1] = "Ok"
IsErr(r) == r[1] = "Err"

-----------------------------------------------------------------------------
(* JSON values *)

JNull == <<"z">>
JBool(b) == <<"b", b>>
JNum(n) == <<"n", n>>
JStr(s) == <<"s", s>>
JArr(elems) == <<"a", elems>>
JObj(pairs) == <<"o", pairs>>

Keys(pairs) == {pairs[i][1] : i \in 1..Len(pairs)}
IndexOf(pairs, key) == CHOOSE i \in 1..Len(pairs) : pairs[i][1] = key
Get(pairs, key) == pairs[IndexOf(pairs, key)][2]

-----------------------------------------------------------------------------
(* enum Color, #[serde(rename_all = "snake_case")] *)

Color ==
  {"Black", "DarkBlue", "DarkGreen", "DarkAqua", "DarkRed", "DarkPurple",
   "Gold", "Gray", "DarkGray", "Blue", "Green", "Aqua", "Red", "LightPurple",
   "Yellow", "White"}

ColorName ==
  [c \in Color |->
     CASE c = "Black" -> "black"
       [] c = "DarkBlue" -> "dark_blue"
       [] c = "DarkGreen" -> "dark_green"
       [] c = "DarkAqua" -> "dark_aqua"
       [] c = "DarkRed" -> "dark_red"
       [] c = "DarkPurple" -> "dark_purple"
       [] c = "Gold" -> "gold"
       [] c = "Gray" -> "gray"
       [] c = "DarkGray" -> "dark_gray"
       [] c = "Blue" -> "blue"
       [] c = "Green" -> "green"
       [] c = "Aqua" -> "aqua"
       [] c = "Red" -> "red"
       [] c = "LightPurple" -> "light_purple"
       [] c = "Yellow" -> "yellow"
       [] c = "White" -> "white"]

(* enum ClickEvent, tag = "action", content = "value", snake_case *)

ClickEventVariant ==
  {"OpenUrl", "OpenFile", "RunCommand", "SuggestCommand", "ChangePage",
   "CopyToClipboard"}

ClickEventName ==
  [v \in ClickEventVariant |->
     CASE v = "OpenUrl" -> "open_url"
       [] v = "OpenFile" -> "open_file"
       [] v = "RunCommand" -> "run_command"
       [] v = "SuggestCommand" -> "suggest_command"
       [] v = "ChangePage" -> "change_page"
       [] v = "CopyToClipboard" -> "copy_to_clipboard"]

(* enum HoverEvent, tag = "action", content = "contents", snake_case *)

HoverEventVariant == {"ShowText", "ShowItem", "ShowEntity"}

HoverEventName ==
  [v \in HoverEventVariant |->
     CASE v = "ShowText" -> "show_text"
       [] v = "ShowItem" -> "show_item"
       [] v = "ShowEntity" -> "show_entity"]

VariantNames(enum) ==
  CASE enum = "Color" -> ColorName
    [] enum = "ClickEvent" -> ClickEventName
    [] enum = "HoverEvent" -> HoverEventName

TagKey(enum) == "action"
ContentKey(enum) == IF enum = "ClickEvent" THEN "value" ELSE "contents"

-----------------------------------------------------------------------------
(* Uuid: 16 bytes, written as lowercase hexadecimal in groups 8-4-4-4-12 *)

HexDigit ==
  <<"0", "1", "2", "3", "4", "5", "6", "7", "8", "9", "a", "b", "c", "d", "e", "f">>

HexByte(b) == HexDigit[(b \div 16) + 1] \o HexDigit[(b % 16) + 1]

RECURSIVE HexBytes(_, _, _)
HexBytes(u, from, to) ==
  IF from > to THEN "" ELSE HexByte(u[from]) \o HexBytes(u, from + 1, to)

UuidHyphenated(u) ==
  HexBytes(u, 1, 4) \o "-" \o HexBytes(u, 5, 6) \o "-" \o HexBytes(u, 7, 8)
    \o "-" \o HexBytes(u, 9, 10) \o "-" \o HexBytes(u, 11, 16)

UuidSimple(u) == HexBytes(u, 1, 16)

UuidNil == [i \in 1..16 |-> 0]
UuidA == [i \in 1..16 |-> 17 * (i - 1)]
UuidB == [i \in 1..16 |-> 255 - i]

UuidInputs == {UuidNil, UuidA, UuidB}

-----------------------------------------------------------------------------
(* struct Chat and its derived Default *)

StyleFlags == {"bold", "italic", "underlined", "strikethrough", "obfuscated"}

ChatDefault ==
  [text |-> "", extra |-> <<>>, color |-> None, bold |-> None,
   italic |-> None, underlined |-> None, strikethrough |-> None,
   obfuscated |-> None, click_event |-> None, hover_event |-> None]

(* Variant: the text is not taken over. *)
FromDefault(text) == ChatDefault

(* impl From<String> for Chat *)
From(text) == [ChatDefault EXCEPT !.text = text]

-----------------------------------------------------------------------------
(* Builder methods of impl Chat: the value of *self after the call *)

(* Variant: the child is put first. *)
add_extra_front(self, extra) == [self EXCEPT !.extra = <<extra>> \o self.extra]

add_extra(self, extra) == [self EXCEPT !.extra = Append(self.extra, extra)]
set_extras(self, extras) == [self EXCEPT !.extra = extras]
color(self, c) == [self EXCEPT !.color = Some(c)]
bold(self) == [self EXCEPT !.bold = Some(TRUE)]
(* Variant: disabling returns the flag to absent. *)
no_bold_clears(self) == [self EXCEPT !.bold = None]

no_bold(self) == [self EXCEPT !.bold = Some(FALSE)]
italic(self) == [self EXCEPT !.italic = Some(TRUE)]
(* Variant: the disable method writes the neighbouring flag. *)
no_italic_on_bold(self) == [self EXCEPT !.bold = Some(FALSE)]

no_italic(self) == [self EXCEPT !.italic = Some(FALSE)]
underlined(self) == [self EXCEPT !.underlined = Some(TRUE)]
no_underlined(self) == [self EXCEPT !.underlined = Some(FALSE)]
strikethrough(self) == [self EXCEPT !.strikethrough = Some(TRUE)]
no_strikethrough(self) == [self EXCEPT !.strikethrough = Some(FALSE)]
obfuscated(self) == [self EXCEPT !.obfuscated = Some(TRUE)]
no_obfuscated(self) == [self EXCEPT !.obfuscated = Some(FALSE)]
on_click(self, event) == [self EXCEPT !.click_event = Some(event)]
on_hover(self, event) == [self EXCEPT !.hover_event = Some(event)]

-----------------------------------------------------------------------------
(* derive(Serialize): the JSON value written for each type *)

SerString(s) == JStr(s)
SerBool(b) == JBool(b)
SerI32(n) == JNum(n)
SerUuid(u) == JStr(UuidHyphenated(u))
SerColor(c) == JStr(ColorName[c])

(* Variant: a skipped field is written as null. *)
SerFieldNull(key, skip, value) == << <<key, IF skip THEN JNull ELSE value>> >>

(* One struct field: skipped when skip_serializing_if holds. *)
SerField(key, skip, value) == IF skip THEN <<>> ELSE << <<key, value>> >>

SerClickEvent(e) ==
  JObj(<< <<"action", JStr(ClickEventName[e[1]])>>, <<"value", SerString(e[2])>> >>)

RECURSIVE SerChat(_)
RECURSIVE SerHoverEvent(_)

SerShowItem(item) ==
  JObj(SerField("id", FALSE, SerString(item.id))
       \o SerField("count", item.count = None,
                   IF item.count = None THEN JNull ELSE SerI32(item.count[1]))
       \o SerField("tag", item.tag = None,
                   IF item.tag = None THEN JNull ELSE SerString(item.tag[1])))

SerShowEntity(entity) ==
  JObj(SerField("name", entity.name = None,
                IF entity.name = None THEN JNull ELSE SerChat(entity.name[1]))
       \o SerField("type", FALSE, SerString(entity.entity_type))
       \o SerField("id", FALSE, SerUuid(entity.id)))

SerHoverEvent(e) ==
  JObj(<< <<"action", JStr(HoverEventName[e[1]])>>,
          <<"contents",
            CASE e[1] = "ShowText" -> SerChat(e[2])
              [] e[1] = "ShowItem" -> SerShowItem(e[2])
              [] e[1] = "ShowEntity" -> SerShowEntity(e[2])>> >>)

(* Variant: false is skipped like None. *)
SerOptionBoolSkipFalse(key, opt) ==
  SerField(key, opt \in {None, Some(FALSE)}, IF opt = None THEN JNull ELSE SerBool(opt[1]))

SerOptionBool(key, opt) ==
  SerField(key, opt = None, IF opt = None THEN JNull ELSE SerBool(opt[1]))

SerChat(c) ==
  JObj(SerField("text", FALSE, SerString(c.text))
       \o SerField("extra", c.extra = <<>>,
                   JArr([i \in 1..Len(c.extra) |-> SerChat(c.extra[i])]))
       \o SerField("color", c.color = None,
                   IF c.color = None THEN JNull ELSE SerColor(c.color[1]))
       \o SerOptionBool("bold", c.bold)
       \o SerOptionBool("italic", c.italic)
       \o SerOptionBool("underlined", c.underlined)
       \o SerOptionBool("strikethrough", c.strikethrough)
       \o SerOptionBool("obfuscated", c.obfuscated)
       \o SerField("clickEvent", c.click_event = None,
                   IF c.click_event = None THEN JNull
                   ELSE SerClickEvent(c.click_event[1]))
       \o SerField("hoverEvent", c.hover_event = None,
                   IF c.hover_event = None THEN JNull
                   ELSE SerHoverEvent(c.hover_event[1])))

-----------------------------------------------------------------------------
(* derive(Deserialize): what the derives accept and what they build *)

(* Types are written as tuples: <<"Option", T>>, <<"Vec", T>>, <<"Box", T>>, *)
(* and <<name>> for the others.                                              *)

TString == <<"String">>
TBool == <<"bool">>
TI32 == <<"i32">>
TUuid == <<"Uuid">>
TColor == <<"Color">>
TClickEvent == <<"ClickEvent">>
THoverEvent == <<"HoverEvent">>
TChat == <<"Chat">>
TShowItem == <<"ShowItem">>
TShowEntity == <<"ShowEntity">>
TOption(T) == <<"Option", T>>
TVec(T) == <<"Vec", T>>
TBox(T) == <<"Box", T>>

I32Max == 2147483647
I32Min == (-I32Max) - 1

(* Keys of each struct in declaration order, after the serde renames. *)
StructKeys(ty) ==
  CASE ty = "Chat" ->
         <<"text", "extra", "color", "bold", "italic", "underlined",
           "strikethrough", "obfuscated", "clickEvent", "hoverEvent">>
    [] ty = "ShowItem" -> <<"id", "count", "tag">>
    [] ty = "ShowEntity" -> <<"name", "type", "id">>

(* The Rust field behind each key, in the same order. *)
StructFields(ty) ==
  CASE ty = "Chat" ->
         <<"text", "extra", "color", "bold", "italic", "underlined",
           "strikethrough", "obfuscated", "click_event", "hover_event">>
    [] ty = "ShowItem" -> <<"id", "count", "tag">>
    [] ty = "ShowEntity" -> <<"name", "entity_type", "id">>

FieldType(ty, key) ==
  CASE ty = "Chat" ->
         (CASE key = "text" -> TString
            [] key = "extra" -> TVec(TChat)
            [] key = "color" -> TOption(TColor)
            [] key \in StyleFlags -> TOption(TBool)
            [] key = "clickEvent" -> TOption(TClickEvent)
            [] key = "hoverEvent" -> TOption(THoverEvent))
    [] ty = "ShowItem" ->
         (CASE key = "id" -> TString
            [] key = "count" -> TOption(TI32)
            [] key = "tag" -> TOption(TString))
    [] ty = "ShowEntity" ->
         (CASE key = "name" -> TOption(TBox(TChat))
            [] key = "type" -> TString
            [] key = "id" -> TUuid)

(* #[serde(default)] is on Chat::extra only. *)
HasDefault(ty, key) == ty = "Chat" /\ key = "extra"

(* Variants: the attribute left off Chat, and put on HoverEvent. *)
ChatAllowUnknownFields == FALSE
HoverEventDenyUnknownFieldsOn == TRUE

(* #[serde(deny_unknown_fields)] is on Chat only. *)
ChatDenyUnknownFields == TRUE
ShowItemDenyUnknownFields == FALSE
ShowEntityDenyUnknownFields == FALSE
ClickEventDenyUnknownFields == FALSE
HoverEventDenyUnknownFields == FALSE

DenyUnknownFields(ty) ==
  CASE ty = "Chat" -> ChatDenyUnknownFields
    [] ty = "ShowItem" -> ShowItemDenyUnknownFields
    [] ty = "ShowEntity" -> ShowEntityDenyUnknownFields
    [] ty = "ClickEvent" -> ClickEventDenyUnknownFields
    [] ty = "HoverEvent" -> HoverEventDenyUnknownFields

(* Variant: no #[serde(default)] on any field. *)
MissingFieldNoDefault(ty, key) ==
  IF FieldType(ty, key)[1] = "Option" THEN Ok(None) ELSE Err("missing_field")

(* A field whose key never came: its default, None for an Option, *)
(* and an error for the rest.                                     *)
MissingField(ty, key) ==
  IF HasDefault(ty, key) THEN Ok(<<>>)
  ELSE IF FieldType(ty, key)[1] = "Option" THEN Ok(None)
  ELSE Err("missing_field")

SeqToSet(s) == {s[i] : i \in 1..Len(s)}

(* The struct built from the values collected per key. *)
BuildStruct(ty, acc) ==
  LET keys == StructKeys(ty)
      fields == StructFields(ty)
      keyOf(f) == keys[CHOOSE i \in 1..Len(fields) : fields[i] = f]
      valueOf(k) == IF acc[k] # <<>> THEN acc[k][1] ELSE MissingField(ty, k)[2]
  IN IF \E k \in SeqToSet(keys) : acc[k] = <<>> /\ IsErr(MissingField(ty, k))
     THEN Err("missing_field")
     ELSE Ok([f \in SeqToSet(fields) |-> valueOf(keyOf(f))])

ParseUuid(s) ==
  IF \E u \in UuidInputs : s \in {UuidHyphenated(u), UuidSimple(u)}
  THEN Ok(CHOOSE u \in UuidInputs : s \in {UuidHyphenated(u), UuidSimple(u)})
  ELSE Err("custom")

(* Variant: an unknown name falls back to some variant. *)
DeVariantOther(enum, json) ==
  LET names == VariantNames(enum) IN
  IF json[1] # "s" THEN Err("invalid_type")
  ELSE IF \E v \in DOMAIN names : names[v] = json[2]
  THEN Ok(CHOOSE v \in DOMAIN names : names[v] = json[2])
  ELSE Ok(CHOOSE v \in DOMAIN names : TRUE)

(* The variant whose serde name is the given JSON string. *)
DeVariant(enum, json) ==
  LET names == VariantNames(enum) IN
  IF json[1] # "s" THEN Err("invalid_type")
  ELSE IF \E v \in DOMAIN names : names[v] = json[2]
  THEN Ok(CHOOSE v \in DOMAIN names : names[v] = json[2])
  ELSE Err("unknown_variant")

(* Index of the next pair from i on whose key is the tag or the content *)
(* key; Len + 1 when there is none; 0 for a key that is denied.         *)
RECURSIVE NextRelevantKey(_, _, _)
NextRelevantKey(enum, pairs, i) ==
  IF i > Len(pairs) THEN i
  ELSE IF pairs[i][1] \in {TagKey(enum), ContentKey(enum)} THEN i
  ELSE IF DenyUnknownFields(enum) THEN 0
  ELSE NextRelevantKey(enum, pairs, i + 1)

RECURSIVE De(_, _)
RECURSIVE DeSeq(_, _, _, _)
RECURSIVE DeStructMap(_, _, _, _)
RECURSIVE DeStructSeq(_, _, _, _)
RECURSIVE DeContent(_, _, _)
RECURSIVE DeAdjacentMap(_, _)

(* Vec<T>: the elements in order, the first error wins. *)
DeSeq(T, elems, i, acc) ==
  IF i > Len(elems) THEN Ok(acc)
  ELSE LET r == De(T, elems[i]) IN
       IF IsErr(r) THEN r ELSE DeSeq(T, elems, i + 1, Append(acc, r[2]))

(* A struct read from an object: the pairs in document order. *)
DeStructMap(ty, pairs, i, acc) ==
  IF i > Len(pairs) THEN BuildStruct(ty, acc)
  ELSE LET k == pairs[i][1]
           v == pairs[i][2]
       IN IF k \notin SeqToSet(StructKeys(ty))
          THEN IF DenyUnknownFields(ty) THEN Err("unknown_field")
               ELSE DeStructMap(ty, pairs, i + 1, acc)
          ELSE IF acc[k] # <<>> THEN Err("duplicate_field")
          ELSE LET r == De(FieldType(ty, k), v) IN
               IF IsErr(r) THEN r
               ELSE DeStructMap(ty, pairs, i + 1, [acc EXCEPT ![k] = <<r[2]>>])

(* A struct read from an array: the fields by position. *)
DeStructSeq(ty, elems, i, acc) ==
  LET keys == StructKeys(ty) IN
  IF i > Len(keys)
  THEN IF Len(elems) > Len(keys) THEN Err("invalid_length")
       ELSE BuildStruct(ty, acc)
  ELSE IF i > Len(elems)
  THEN IF HasDefault(ty, keys[i]) THEN DeStructSeq(ty, elems, i + 1, acc)
       ELSE Err("invalid_length")
  ELSE LET r == De(FieldType(ty, keys[i]), elems[i]) IN
       IF IsErr(r) THEN r
       ELSE DeStructSeq(ty, elems, i + 1, [acc EXCEPT ![keys[i]] = <<r[2]>>])

(* The content of one variant of an adjacently tagged enum. *)
DeContent(enum, variant, json) ==
  LET r == CASE enum = "ClickEvent" -> De(TString, json)
             [] variant = "ShowText" -> De(TBox(TChat), json)
             [] variant = "ShowItem" -> De(TShowItem, json)
             [] variant = "ShowEntity" -> De(TShowEntity, json)
  IN IF IsErr(r) THEN r ELSE Ok(<<variant, r[2]>>)

(* An adjacently tagged enum read from an object: the tag and the content *)
(* may come in either order, a content that comes first is kept and read  *)
(* once the tag is known.                                                 *)
DeAdjacentMap(enum, pairs) ==
  LET n == Len(pairs)
      isTag(i) == pairs[i][1] = TagKey(enum)
      k1 == NextRelevantKey(enum, pairs, 1)
      k2 == NextRelevantKey(enum, pairs, k1 + 1)
      k3 == NextRelevantKey(enum, pairs, k2 + 1)
      tagAt == IF isTag(k1) THEN k1 ELSE k2
      contentAt == IF isTag(k1) THEN k2 ELSE k1
      tag == DeVariant(enum, pairs[tagAt][2])
      content == DeContent(enum, tag[2], pairs[contentAt][2])
  IN IF k1 = 0 THEN Err("unknown_field")
     ELSE IF k1 > n THEN Err("missing_field")
     ELSE IF isTag(k1)
     THEN IF IsErr(tag) THEN tag
          ELSE IF k2 = 0 THEN Err("unknown_field")
          ELSE IF k2 > n THEN Err("missing_field")
          ELSE IF isTag(k2) THEN Err("duplicate_field")
          ELSE IF IsErr(content) THEN content
          ELSE IF k3 = 0 THEN Err("unknown_field")
          ELSE IF k3 <= n THEN Err("duplicate_field")
          ELSE content
     ELSE IF k2 = 0 THEN Err("unknown_field")
          ELSE IF k2 > n THEN Err("missing_field")
          ELSE IF ~isTag(k2) THEN Err("duplicate_field")
          ELSE IF IsErr(tag) THEN tag
          ELSE IF IsErr(content) THEN content
          ELSE IF k3 = 0 THEN Err("unknown_field")
          ELSE IF k3 <= n THEN Err("duplicate_field")
          ELSE content

(* An adjacently tagged enum read from an array: the tag, then the content. *)
DeAdjacentSeq(enum, elems) ==
  LET tag == DeVariant(enum, elems[1])
      content == DeContent(enum, tag[2], elems[2])
  IN IF Len(elems) = 0 THEN Err("invalid_length")
     ELSE IF IsErr(tag) THEN tag
     ELSE IF Len(elems) = 1 THEN Err("invalid_length")
     ELSE IF IsErr(content) THEN content
     ELSE IF Len(elems) > 2 THEN Err("invalid_length")
     ELSE content

(* A unit-only enum: its name as a string, or an object with the name as *)
(* its single key and null as the value.                                 *)
DeUnitEnum(enum, json) ==
  CASE json[1] = "s" -> DeVariant(enum, json)
    [] json[1] = "o" ->
         IF Len(json[2]) = 0 THEN Err("syntax")
         ELSE LET v == DeVariant(enum, JStr(json[2][1][1])) IN
              IF IsErr(v) THEN v
              ELSE IF json[2][1][2] # JNull THEN Err("invalid_type")
              ELSE IF Len(json[2]) > 1 THEN Err("syntax")
              ELSE v
    [] OTHER -> Err("invalid_type")

De(T, json) ==
  CASE T[1] = "String" ->
         IF json[1] = "s" THEN Ok(json[2]) ELSE Err("invalid_type")
    [] T[1] = "bool" ->
         IF json[1] = "b" THEN Ok(json[2]) ELSE Err("invalid_type")
    [] T[1] = "i32" ->
         IF json[1] # "n" THEN Err("invalid_type")
         ELSE IF json[2] < I32Min \/ json[2] > I32Max THEN Err("invalid_value")
         ELSE Ok(json[2])
    [] T[1] = "Uuid" ->
         IF json[1] = "s" THEN ParseUuid(json[2]) ELSE Err("invalid_type")
    [] T[1] = "Option" ->
         IF json = JNull THEN Ok(None)
         ELSE LET r == De(T[2], json) IN IF IsErr(r) THEN r ELSE Ok(Some(r[2]))
    [] T[1] = "Box" -> De(T[2], json)
    [] T[1] = "Vec" ->
         IF json[1] = "a" THEN DeSeq(T[2], json[2], 1, <<>>)
         ELSE Err("invalid_type")
    [] T[1] = "Color" -> DeUnitEnum("Color", json)
    [] T[1] \in {"ClickEvent", "HoverEvent"} ->
         (CASE json[1] = "o" -> DeAdjacentMap(T[1], json[2])
            [] json[1] = "a" -> DeAdjacentSeq(T[1], json[2])
            [] OTHER -> Err("invalid_type"))
    [] T[1] \in {"Chat", "ShowItem", "ShowEntity"} ->
         LET acc == [k \in SeqToSet(StructKeys(T[1])) |-> <<>>] IN
         (CASE json[1] = "o" -> DeStructMap(T[1], json[2], 1, acc)
            [] json[1] = "a" -> DeStructSeq(T[1], json[2], 1, acc)
            [] OTHER -> Err("invalid_type"))

DeChat(json) == De(TChat, json)

-----------------------------------------------------------------------------
(* Inputs *)

TextInputs == {"", "hello"}

Hello == From("Hello, ")
World == [From("World!") EXCEPT !.bold = Some(TRUE)]

(* The nested example: two children, the second one bold. *)
Nested == [ChatDefault EXCEPT !.extra = <<Hello, World>>]

(* Every style flag explicitly false. *)
AllOff ==
  [From("off") EXCEPT !.bold = Some(FALSE), !.italic = Some(FALSE),
                      !.underlined = Some(FALSE), !.strikethrough = Some(FALSE),
                      !.obfuscated = Some(FALSE)]

ItemFull == [id |-> "minecraft:stone", count |-> Some(3), tag |-> Some("{}")]
ItemMin == [id |-> "minecraft:dirt", count |-> None, tag |-> None]
EntityNamed == [name |-> Some(AllOff), entity_type |-> "minecraft:pig", id |-> UuidA]
EntityAnon == [name |-> None, entity_type |-> "minecraft:cow", id |-> UuidB]

ClickInputs == {<<v, "/say hi">> : v \in ClickEventVariant}

(* The colors handed to the builder; all sixteen are written and read back *)
(* on their own in C1.                                                     *)
ColorInputs == {"Black", "DarkBlue", "Gray", "DarkGray", "LightPurple", "White"}

HoverInputs ==
  {<<"ShowText", Nested>>, <<"ShowItem", ItemFull>>, <<"ShowItem", ItemMin>>,
   <<"ShowEntity", EntityNamed>>, <<"ShowEntity", EntityAnon>>}

(* A Chat with every field set, built through the public fields. *)
Full ==
  [text |-> "full", extra |-> <<World, AllOff>>, color |-> Some("LightPurple"),
   bold |-> Some(TRUE), italic |-> Some(FALSE), underlined |-> Some(TRUE),
   strikethrough |-> Some(FALSE), obfuscated |-> Some(TRUE),
   click_event |-> Some(<<"CopyToClipboard", "text">>),
   hover_event |-> Some(<<"ShowEntity", EntityNamed>>)]

ChildInputs == {Hello, World}
ExtrasInputs == {<<>>, <<World>>, <<AllOff, Hello>>}
LiteralInputs == {Nested, AllOff, Full}

-----------------------------------------------------------------------------
(* The builder, then Display (serde_json::to_string) and decoding *)

NoFlagCalls == [f \in StyleFlags |-> "none"]

Init ==
  /\ pc = "new"
  /\ msg = ChatDefault
  /\ calls = 0
  /\ lastCall = <<"default">>
  /\ flagCall = NoFlagCalls
  /\ extraLog = <<>>
  /\ doc = JNull
  /\ res = Err("none")
  /\ base = ChatDefault
  /\ edits = <<>>

(* Chat::from(text) *)
FromString ==
  /\ pc = "new"
  /\ \E text \in TextInputs :
       /\ msg' = From(text)
       /\ lastCall' = <<"from", text>>
  /\ pc' = "built"
  /\ extraLog' = msg'.extra
  /\ base' = msg'
  /\ UNCHANGED <<calls, flagCall, doc, res, edits>>

(* Chat { .. } written out through the public fields *)
Literal ==
  /\ pc = "new"
  /\ \E m \in LiteralInputs :
       /\ msg' = m
       /\ lastCall' = <<"literal", m>>
  /\ pc' = "built"
  /\ extraLog' = msg'.extra
  /\ base' = msg'
  /\ UNCHANGED <<calls, flagCall, doc, res, edits>>

(* What every builder call does besides changing msg. *)
Called(call) ==
  /\ pc \in {"new", "built"}
  /\ calls < MaxCalls
  /\ pc' = "built"
  /\ calls' = calls + 1
  /\ lastCall' = call
  /\ flagCall' = IF call[1] \in StyleFlags
                 THEN [flagCall EXCEPT ![call[1]] = "enable"]
                 ELSE IF call[1] \in {"no_" \o f : f \in StyleFlags}
                 THEN [flagCall EXCEPT
                         ![CHOOSE f \in StyleFlags : call[1] = "no_" \o f] = "disable"]
                 ELSE flagCall
  /\ extraLog' = CASE call[1] = "add_extra" -> Append(extraLog, call[2])
                   [] call[1] = "set_extras" -> call[2]
                   [] OTHER -> extraLog
  /\ UNCHANGED <<doc, res, base, edits>>

AddExtra ==
  \E extra \in ChildInputs :
    msg' = add_extra(msg, extra) /\ Called(<<"add_extra", extra>>)

SetExtras ==
  \E extras \in ExtrasInputs :
    msg' = set_extras(msg, extras) /\ Called(<<"set_extras", extras>>)

SetColor == \E c \in ColorInputs : msg' = color(msg, c) /\ Called(<<"color", c>>)

Bold == msg' = bold(msg) /\ Called(<<"bold">>)
NoBold == msg' = no_bold(msg) /\ Called(<<"no_bold">>)
Italic == msg' = italic(msg) /\ Called(<<"italic">>)
NoItalic == msg' = no_italic(msg) /\ Called(<<"no_italic">>)
Underlined == msg' = underlined(msg) /\ Called(<<"underlined">>)
NoUnderlined == msg' = no_underlined(msg) /\ Called(<<"no_underlined">>)
Strikethrough == msg' = strikethrough(msg) /\ Called(<<"strikethrough">>)
NoStrikethrough == msg' = no_strikethrough(msg) /\ Called(<<"no_strikethrough">>)
Obfuscated == msg' = obfuscated(msg) /\ Called(<<"obfuscated">>)
NoObfuscated == msg' = no_obfuscated(msg) /\ Called(<<"no_obfuscated">>)

OnClick ==
  \E event \in ClickInputs :
    msg' = on_click(msg, event) /\ Called(<<"on_click", event>>)

OnHover ==
  \E event \in HoverInputs :
    msg' = on_hover(msg, event) /\ Called(<<"on_hover", event>>)

(* impl fmt::Display for Chat: the JSON written for msg *)
Display ==
  /\ pc \in {"new", "built"}
  /\ doc' = SerChat(msg)
  /\ pc' = "encoded"
  /\ UNCHANGED <<msg, calls, lastCall, flagCall, extraLog, res, base, edits>>

(* Reading the written document back as a Chat *)
Decode ==
  /\ pc = "encoded"
  /\ res' = DeChat(doc)
  /\ pc' = "decoded"
  /\ UNCHANGED <<msg, calls, lastCall, flagCall, extraLog, doc, base, edits>>

Next ==
  \/ FromString
  \/ Literal
  \/ AddExtra
  \/ SetExtras
  \/ SetColor
  \/ Bold
  \/ NoBold
  \/ Italic
  \/ NoItalic
  \/ Underlined
  \/ NoUnderlined
  \/ Strikethrough
  \/ NoStrikethrough
  \/ Obfuscated
  \/ NoObfuscated
  \/ OnClick
  \/ OnHover
  \/ Display
  \/ Decode

Spec == Init /\ [][Next]_vars

-----------------------------------------------------------------------------
(* Documents given to the decoder: the encoding of a Chat, changed in a few *)
(* places.  A path is a sequence of steps <<"k", key>> and <<"i", index>>.  *)

Reverse(q) == [i \in 1..Len(q) |-> q[Len(q) + 1 - i]]

RECURSIVE At(_, _)
At(json, path) ==
  IF path = <<>> THEN json
  ELSE IF Head(path)[1] = "k" THEN At(Get(json[2], Head(path)[2]), Tail(path))
  ELSE At(json[2][Head(path)[2]], Tail(path))

RECURSIVE Resolves(_, _)
Resolves(json, path) ==
  IF path = <<>> THEN TRUE
  ELSE IF Head(path)[1] = "k"
  THEN /\ json[1] = "o"
       /\ Head(path)[2] \in Keys(json[2])
       /\ Resolves(Get(json[2], Head(path)[2]), Tail(path))
  ELSE /\ json[1] = "a"
       /\ Head(path)[2] \in 1..Len(json[2])
       /\ Resolves(json[2][Head(path)[2]], Tail(path))

(* The places of a well-formed encoding where an object of each type sits. *)
RECURSIVE Places(_, _, _)
Places(json, ty, path) ==
  LET pairs == json[2]
      has(k) == k \in Keys(pairs)
      under(k) == Append(path, <<"k", k>>)
  IN {<<ty, path>>} \cup
     CASE ty = "Chat" ->
            (IF has("extra")
             THEN UNION {Places(Get(pairs, "extra")[2][i], "Chat",
                                Append(under("extra"), <<"i", i>>)) :
                           i \in 1..Len(Get(pairs, "extra")[2])}
             ELSE {})
            \cup (IF has("clickEvent")
                  THEN {<<"ClickEvent", under("clickEvent")>>} ELSE {})
            \cup (IF has("hoverEvent")
                  THEN Places(Get(pairs, "hoverEvent"), "HoverEvent", under("hoverEvent"))
                  ELSE {})
       [] ty = "HoverEvent" ->
            (CASE Get(pairs, "action") = JStr("show_text") ->
                    Places(Get(pairs, "contents"), "Chat", under("contents"))
               [] Get(pairs, "action") = JStr("show_item") ->
                    {<<"ShowItem", under("contents")>>}
               [] Get(pairs, "action") = JStr("show_entity") ->
                    Places(Get(pairs, "contents"), "ShowEntity", under("contents")))
       [] ty = "ShowEntity" ->
            (IF has("name")
             THEN Places(Get(pairs, "name"), "Chat", under("name")) ELSE {})
       [] OTHER -> {}

UnknownKey == "zzz"
BadActions(ty) ==
  IF ty = "ClickEvent" THEN {"bogus", "OpenUrl", "show_text"}
  ELSE {"bogus", "ShowText", "open_url"}

Edit(kind, ty, path, key, keys, value, front) ==
  [kind |-> kind, ty |-> ty, path |-> path, key |-> key, keys |-> keys,
   value |-> value, front |-> front]

(* The single changes considered for the encoding json of a Chat. *)
UnknownKeyEdits(json) ==
  {Edit("unknown_key", p[1], p[2], UnknownKey, {}, JStr("x"), front) :
     p \in Places(json, "Chat", <<>>), front \in BOOLEAN}

BadActionEdits(json) ==
  UNION {{Edit("bad_action", p[1], p[2], "action", {}, JStr(a), FALSE) :
            a \in BadActions(p[1])} :
           p \in {q \in Places(json, "Chat", <<>>) : q[1] \in {"ClickEvent", "HoverEvent"}}}

BadTypeEdits(json) ==
  {Edit("bad_type", "Chat", <<>>, "text", {}, JNum(5), FALSE)}

SwapEdits(json) ==
  {Edit("swap", p[1], p[2], "", {}, JNull, FALSE) :
     p \in {q \in Places(json, "Chat", <<>>) : q[1] \in {"ClickEvent", "HoverEvent"}}}

DropEdits(json) ==
  {Edit("drop", "Chat", <<>>, "", ks, JNull, FALSE) :
     ks \in (SUBSET Keys(json[2])) \ {{}}}

LaterEdits(json) ==
  UnknownKeyEdits(json) \cup BadActionEdits(json) \cup BadTypeEdits(json)
    \cup SwapEdits(json)

ApplyHere(json, e) ==
  LET pairs == json[2] IN
  JObj(CASE e.kind = "unknown_key" ->
              IF e.front THEN << <<e.key, e.value>> >> \o pairs
              ELSE Append(pairs, <<e.key, e.value>>)
         [] e.kind \in {"bad_action", "bad_type"} ->
              [i \in 1..Len(pairs) |->
                 IF pairs[i][1] = e.key THEN <<e.key, e.value>> ELSE pairs[i]]
         [] e.kind = "drop" -> SelectSeq(pairs, LAMBDA p : p[1] \notin e.keys)
         [] e.kind = "swap" -> Reverse(pairs))

RECURSIVE ApplyAt(_, _, _)
ApplyAt(json, path, e) ==
  IF path = <<>> THEN ApplyHere(json, e)
  ELSE IF Head(path)[1] = "k"
  THEN JObj([i \in 1..Len(json[2]) |->
               IF json[2][i][1] = Head(path)[2]
               THEN <<json[2][i][1], ApplyAt(json[2][i][2], Tail(path), e)>>
               ELSE json[2][i]])
  ELSE JArr([i \in 1..Len(json[2]) |->
               IF i = Head(path)[2] THEN ApplyAt(json[2][i], Tail(path), e)
               ELSE json[2][i]])

ApplyEdit(json, e) == ApplyAt(json, e.path, e)

ValidEdit(json, e) ==
  /\ Resolves(json, e.path)
  /\ At(json, e.path)[1] = "o"
  /\ CASE e.kind = "unknown_key" -> e.key \notin Keys(At(json, e.path)[2])
       [] e.kind \in {"bad_action", "bad_type"} ->
            /\ e.key \in Keys(At(json, e.path)[2])
            /\ Get(At(json, e.path)[2], e.key) # e.value
       [] e.kind = "drop" -> e.keys \subseteq Keys(At(json, e.path)[2])
       [] e.kind = "swap" -> Len(At(json, e.path)[2]) > 1

BaseInputs ==
  {ChatDefault,
   Full,
   [ChatDefault EXCEPT !.extra = <<on_hover(Hello, <<"ShowText", Nested>>)>>],
   on_hover(on_click(From("hello"), <<"OpenUrl", "https://example.org">>),
            <<"ShowItem", ItemFull>>)}

InitDecode ==
  /\ pc = "input"
  /\ base \in BaseInputs
  /\ edits = <<>>
  /\ doc = SerChat(base)
  /\ res = Err("none")
  /\ msg = base
  /\ calls = 0
  /\ lastCall = <<"literal", base>>
  /\ flagCall = NoFlagCalls
  /\ extraLog = base.extra

(* One more change to the document, applicable to it as it stands.  Keys *)
(* are dropped first, and several keys only when nothing else changes.   *)
Alter ==
  /\ pc = "input"
  /\ Len(edits) < MaxEdits
  /\ IF edits = <<>> THEN TRUE ELSE Cardinality(edits[1].keys) <= 1
  /\ \E e \in LaterEdits(SerChat(base))
              \cup (IF edits = <<>> THEN DropEdits(SerChat(base)) ELSE {}) :
       /\ ValidEdit(doc, e)
       /\ doc' = ApplyEdit(doc, e)
       /\ edits' = Append(edits, e)
  /\ UNCHANGED <<pc, msg, calls, lastCall, flagCall, extraLog, res, base>>

(* Reading a given document as a Chat *)
DecodeInput ==
  /\ pc = "input"
  /\ res' = DeChat(doc)
  /\ pc' = "decoded"
  /\ UNCHANGED <<msg, calls, lastCall, flagCall, extraLog, doc, base, edits>>

NextDecode == Alter \/ DecodeInput

SpecDecode == InitDecode /\ [][NextDecode]_vars

-----------------------------------------------------------------------------
(* Properties of the builder *)

ChatFieldNames ==
  {"text", "extra", "color", "bold", "italic", "underlined", "strikethrough",
   "obfuscated", "click_event", "hover_event"}

BuilderNames ==
  {"add_extra", "set_extras", "color", "on_click", "on_hover"}
    \cup StyleFlags \cup {"no_" \o f : f \in StyleFlags}

(* The one field a builder method is expected to write. *)
FieldOf(name) ==
  CASE name \in {"add_extra", "set_extras"} -> "extra"
    [] name = "color" -> "color"
    [] name = "on_click" -> "click_event"
    [] name = "on_hover" -> "hover_event"
    [] name \in StyleFlags -> name
    [] OTHER -> CHOOSE f \in StyleFlags : name = "no_" \o f

BuilderStep == calls' = calls + 1

C5_LastCallDecides ==
  \A f \in StyleFlags :
    /\ flagCall[f] = "enable" => msg[f] = Some(TRUE)
    /\ flagCall[f] = "disable" => msg[f] = Some(FALSE)

C5_StaysPresent ==
  BuilderStep => \A f \in StyleFlags : msg[f] # None => msg'[f] # None

(* C5: through the builder calls a style flag that is present stays present *)
(* (no call returns it to absent), and its value is true when the most      *)
(* recent call on that flag was the enable method and false when it was the *)
(* disable method, whatever other calls came in between.                    *)
C5_FlagsNeverReturnToAbsent == [][C5_StaysPresent]_vars /\ []C5_LastCallDecides

(* bold disabled by a call that is no longer the last one, and still present *)
C5_Witness ==
  /\ calls >= 2
  /\ flagCall["bold"] = "disable"
  /\ lastCall[1] \notin {"bold", "no_bold"}
  /\ msg.bold = Some(FALSE)

C6_Frame ==
  BuilderStep =>
    /\ lastCall'[1] \in BuilderNames
    /\ \A f \in ChatFieldNames \ {FieldOf(lastCall'[1])} : msg'[f] = msg[f]

C6_BoldThenNoItalic ==
  (/\ base = ChatDefault
   /\ calls = 2
   /\ flagCall = [NoFlagCalls EXCEPT !["bold"] = "enable", !["italic"] = "disable"]
   /\ lastCall = <<"no_italic">>)
  => /\ msg.bold = Some(TRUE)
     /\ msg.italic = Some(FALSE)
     /\ msg.text = ""
     /\ msg.extra = <<>>
     /\ \A f \in {"color", "underlined", "strikethrough", "obfuscated",
                  "click_event", "hover_event"} : msg[f] = None

(* C6: every builder call leaves all fields but its own unchanged (extra for *)
(* add_extra and set_extras, color for color, the flag for its enable and    *)
(* disable methods, click_event for on_click, hover_event for on_hover; text *)
(* for none); bold() then no_italic() on a fresh Chat gives bold true,       *)
(* italic false, and everything else as in the default.                      *)
C6_OneFieldPerCall == [][C6_Frame]_vars /\ []C6_BoldThenNoItalic

(* a fresh Chat after bold() and then no_italic() *)
C6_Witness ==
  /\ base = ChatDefault
  /\ calls = 2
  /\ flagCall = [NoFlagCalls EXCEPT !["bold"] = "enable", !["italic"] = "disable"]
  /\ lastCall = <<"no_italic">>
  /\ msg.italic = Some(FALSE)

(* C7: extra is the argument of the last set_extras (the initial list when *)
(* there was none) followed by the arguments of the later add_extra calls  *)
(* in call order: add_extra appends one child at the end, set_extras       *)
(* replaces the whole list.                                                *)
C7_ExtraIsLog ==
  pc \in {"new", "built"} =>
    /\ msg.extra = extraLog
    /\ lastCall[1] = "set_extras" => msg.extra = lastCall[2]
    /\ lastCall[1] = "add_extra" =>
         /\ Len(msg.extra) >= 1
         /\ msg.extra[Len(msg.extra)] = lastCall[2]

(* set_extras of two children, then add_extra of a third *)
C7_Witness ==
  /\ pc = "built"
  /\ lastCall = <<"add_extra", World>>
  /\ msg.extra = <<AllOff, Hello, World>>

(* C8: Chat::from(s) has text s, no extra, and no color, style flag, click *)
(* event or hover event.                                                   *)
C8_FromString ==
  (pc = "built" /\ calls = 0 /\ lastCall[1] = "from") =>
    /\ msg.text = lastCall[2]
    /\ msg.extra = <<>>
    /\ \A f \in ChatFieldNames \ {"text", "extra"} : msg[f] = <<>>

(* Chat::from("hello") *)
C8_Witness ==
  /\ pc = "built"
  /\ calls = 0
  /\ lastCall = <<"from", "hello">>
  /\ msg.text = "hello"

-----------------------------------------------------------------------------
(* Properties of the written document *)

(* C1: the Chat read back from the document written for msg is msg itself, *)
(* field for field: an absent style flag comes back absent, an explicitly  *)
(* false one comes back false, and children, color, click and hover events *)
(* (nested Chats included) come back as they were; so does each of the     *)
(* sixteen colors.                                                         *)
C1_RoundTrip ==
  pc = "decoded" =>
    /\ res = Ok(msg)
    /\ \A c \in Color : De(TOption(TColor), SerColor(c)) = Ok(Some(c))

(* read back: bold explicitly false, italic absent, a hover text with children *)
C1_Witness ==
  /\ pc = "decoded"
  /\ msg.bold = Some(FALSE)
  /\ msg.italic = None
  /\ msg.hover_event = Some(<<"ShowText", Nested>>)
  /\ IsOk(res)

(* The key under which each optional field of Chat is written. *)
OptionalKey ==
  [f \in ChatFieldNames \ {"text", "extra"} |->
     CASE f = "click_event" -> "clickEvent"
       [] f = "hover_event" -> "hoverEvent"
       [] OTHER -> f]

RECURSIVE KeysAsPresent(_, _)
KeysAsPresent(m, json) ==
  /\ json[1] = "o"
  /\ LET pairs == json[2] IN
     /\ Len(pairs) = Cardinality(Keys(pairs))
     /\ Keys(pairs) =
          {"text"} \cup (IF m.extra # <<>> THEN {"extra"} ELSE {})
            \cup {OptionalKey[f] : f \in {g \in DOMAIN OptionalKey : m[g] # None}}
     /\ \A i \in 1..Len(pairs) : pairs[i][2] # JNull
     /\ m.extra # <<>> =>
          /\ Get(pairs, "extra")[1] = "a"
          /\ Len(Get(pairs, "extra")[2]) = Len(m.extra)
          /\ \A i \in 1..Len(m.extra) :
               KeysAsPresent(m.extra[i], Get(pairs, "extra")[2][i])

(* C2: the written object always has the key text; it has extra exactly    *)
(* when msg.extra is not empty and each optional key exactly when its      *)
(* field is present; no value is null; the same holds for every child in   *)
(* extra; the default Chat is written as the object with text "" only.     *)
C2_EncodeOmission ==
  pc \in {"encoded", "decoded"} =>
    /\ KeysAsPresent(msg, doc)
    /\ msg = ChatDefault => doc = JObj(<< <<"text", JStr("")>> >>)

(* written: children, a present flag, no color and no events *)
C2_Witness ==
  /\ pc = "encoded"
  /\ msg.extra = <<Hello, World>>
  /\ msg.underlined = Some(FALSE)
  /\ msg.color = None
  /\ msg.click_event = None
  /\ Keys(doc[2]) = {"text", "extra", "underlined"}

-----------------------------------------------------------------------------
(* Properties of decoding a given document *)

IsChatKeyEdit(e) == e.kind = "unknown_key" /\ e.ty = "Chat"
IsEventKeyEdit(e) == e.kind = "unknown_key" /\ e.ty # "Chat"
IsBadActionEdit(e) == e.kind = "bad_action"
IsDropEdit(e) == e.kind = "drop"

(* Changes that leave a document well formed. *)
Harmless(e) ==
  \/ e.kind = "swap"
  \/ IsEventKeyEdit(e)
  \/ IsDropEdit(e) /\ "text" \notin e.keys

Edits == SeqToSet(edits)

(* C3: a key outside the recognized ten in a Chat object makes decoding    *)
(* fail, wherever the object sits (top level, child in extra, hover text,  *)
(* entity name); no Chat is returned; the error is the unknown-field one   *)
(* when the document has no other defect.                                  *)
C3_StrictRejection ==
  (pc = "decoded" /\ \E e \in Edits : IsChatKeyEdit(e)) =>
    /\ IsErr(res)
    /\ (\A e \in Edits : IsChatKeyEdit(e) \/ Harmless(e)) => res = Err("unknown_field")

(* an unknown key in a Chat that sits in a hover text of a child *)
C3_Witness ==
  /\ pc = "decoded"
  /\ \E e \in Edits : IsChatKeyEdit(e) /\ Len(e.path) >= 4
  /\ \A e \in Edits : IsChatKeyEdit(e)
  /\ res = Err("unknown_field")

(* C4: a click or hover event whose action is not one of the variant names *)
(* of its enum makes decoding of the enclosing Chat fail; the error is the  *)
(* unknown-variant one when the document has no other defect.               *)
C4_DiscriminatorClosure ==
  (pc = "decoded" /\ \E e \in Edits : IsBadActionEdit(e)) =>
    /\ IsErr(res)
    /\ (\A e \in Edits : IsBadActionEdit(e) \/ Harmless(e)) => res = Err("unknown_variant")

(* a hover event with contents first and an action of the other enum *)
C4_Witness ==
  /\ pc = "decoded"
  /\ \E e \in Edits : e.kind = "swap" /\ e.ty = "HoverEvent"
  /\ \E e \in Edits : IsBadActionEdit(e) /\ e.ty = "HoverEvent" /\ e.value = JStr("open_url")
  /\ res = Err("unknown_variant")

OnlyEventKeyEdits == edits # <<>> /\ \A e \in Edits : IsEventKeyEdit(e)

(* C9 as stated: an unknown key in a click event, hover event, show_item *)
(* or show_entity object makes decoding fail with an unknown-field error. *)
C9_EventKeysRejected ==
  (pc = "decoded" /\ OnlyEventKeyEdits) => res = Err("unknown_field")

(* C9: unknown keys are rejected in Chat objects only; an unknown key in a *)
(* click event, hover event, show_item or show_entity object is skipped    *)
(* and the document decodes to the same Chat as without it.                *)
C9_EventKeysIgnored ==
  (pc = "decoded" /\ OnlyEventKeyEdits) => res = Ok(base)

(* unknown keys in a click event and in a show_entity object *)
C9_Witness ==
  /\ pc = "decoded"
  /\ \E e \in Edits : IsEventKeyEdit(e) /\ e.ty = "ClickEvent"
  /\ \E e \in Edits : IsEventKeyEdit(e) /\ e.ty = "ShowEntity"
  /\ res = Ok(base)

DroppedKeys == UNION {e.keys : e \in {d \in Edits : IsDropEdit(d)}}

(* base with the fields of the dropped keys as in the default Chat *)
WithoutDropped ==
  [f \in ChatFieldNames |->
     IF (IF f \in DOMAIN OptionalKey THEN OptionalKey[f] ELSE f) \in DroppedKeys
     THEN ChatDefault[f] ELSE base[f]]

(* C10: a document with a string text and any subset of the other keys     *)
(* decodes, with extra empty and the optional fields absent where the key  *)
(* is missing; a document without text is rejected for the missing field.  *)
C10_OnlyTextRequired ==
  (pc = "decoded" /\ \A e \in Edits : Harmless(e) \/ IsDropEdit(e)) =>
    res = IF "text" \in DroppedKeys THEN Err("missing_field") ELSE Ok(WithoutDropped)

(* extra, a flag and both events left out, text kept *)
C10_Witness ==
  /\ pc = "decoded"
  /\ base = Full
  /\ DroppedKeys = {"extra", "italic", "clickEvent", "hoverEvent"}
  /\ IsOk(res)
  /\ res[2].extra = <<>>
  /\ res[2].italic = None
  /\ res[2].bold = Some(TRUE)

=============================================================================
